---- MODULE Spec2Model ----
\* The preprocessing pipeline of notebooks/preprocessing.ipynb: each code cell
\* of the notebook is one action, the kernel's variables are the state.
\*
\* Timestamps are whole hours since an epoch. A value is <<x>> (present, x an
\* integer number of 1/120 units) or <<>> (NaN). A DataFrame is a sequence of
\* rows, one record per row, in index order.
EXTENDS Integers, Sequences, FiniteSets, TLC

VARIABLES pc, threshold, consumption, temperature, result, outliers_global,
          outliers_local, outliers, merged_data, missing, avail_data, imputed,
          catalog

vars == <<pc, threshold, consumption, temperature, result, outliers_global,
          outliers_local, outliers, merged_data, missing, avail_data, imputed,
          catalog>>

\* ------------------------------------------------------------------ bounds

\* Largest timestamp and largest number of rows of a raw input drawn for the
\* timestamp validator alone.
MaxTs == 2
MaxRaw == 4

\* The hours a raw dataset of a pipeline run spans at most.
PipelineHours == 4

\* The largest number of missing values of each signal in the data drawn for
\* the sufficiency check alone.
MaxMissing == 2

\* The hours of the temperature series drawn for the interpolation alone.
ImputeHours == 15

\* The hours of a calendar day and of a calendar month of the model's calendar.
HoursPerDay == 4
HoursPerMonth == 10

\* --------------------------------------------------------------- parameters

\* no_change_window, c, min_samples (in tenths), window and mostly (in tenths)
\* as the notebook passes them; the factor of the magnitude rule.
no_change_window == 3
OutlierC == 4
MinSamples10 == 6
window == 6
Mostly10 == 9
MedianFactor == 10

\* ------------------------------------------------------------------ values

NaN == <<>>

Val(x) == <<x>>

isna(v) == v = NaN

notna(v) == v # NaN

Num(v) == v[1]

Abs(x) == IF x < 0 THEN -x ELSE x

Range(s) == {s[i] : i \in DOMAIN s}

RECURSIVE SetMax(_)
SetMax(S) ==
    LET x == CHOOSE y \in S : TRUE
    IN  IF S = {x} THEN x
        ELSE LET m == SetMax(S \ {x}) IN IF x > m THEN x ELSE m

RECURSIVE SetMin(_)
SetMin(S) ==
    LET x == CHOOSE y \in S : TRUE
    IN  IF S = {x} THEN x
        ELSE LET m == SetMin(S \ {x}) IN IF x < m THEN x ELSE m

RECURSIVE SeqSum(_)
SeqSum(s) == IF s = <<>> THEN 0 ELSE Head(s) + SeqSum(Tail(s))

\* The values of the raw rows: 10.0, 10.5 and 12.0 in 1/120 units, so that the
\* mean of up to five of them is a whole number of units.
RawValues == {1200, 1260, 1440}

\* The thresholds validate_data may have as its default (the notebook passes
\* none): 0.1 and 1.0.
Thresholds == {12, 120}

\* ------------------------------------------------------- validate_data

Timestamps(df) == {df[i].timestamp : i \in DOMAIN df}

\* The values of the rows of df that carry timestamp t, in row order.
GroupValues(df, t) ==
    LET rows == SelectSeq(df, LAMBDA r : r.timestamp = t)
    IN  [i \in DOMAIN rows |-> Num(rows[i].value)]

\* One value for the rows sharing timestamp t: their mean when their range is
\* within the threshold, missing otherwise.
DedupValue(df, t, tau) ==
    LET g == GroupValues(df, t)
    IN  IF SetMax(Range(g)) - SetMin(Range(g)) <= tau
        THEN Val(SeqSum(g) \div Len(g))
        ELSE NaN

\* The deduplicated rows, by increasing timestamp.
RECURSIVE Dedup(_, _, _)
Dedup(df, ts, tau) ==
    IF ts = {} THEN <<>>
    ELSE LET t == SetMin(ts)
         IN  <<[timestamp |-> t, value |-> DedupValue(df, t, tau)]>>
             \o Dedup(df, ts \ {t}, tau)

\* The value of the row of df with timestamp t, NaN when there is none.
Lookup(df, t) ==
    IF \E i \in DOMAIN df : df[i].timestamp = t
    THEN df[CHOOSE i \in DOMAIN df : df[i].timestamp = t].value
    ELSE NaN

\* The rows of df put on the hourly index lo..hi.
RECURSIVE Reindex(_, _, _)
Reindex(df, lo, hi) ==
    IF lo > hi THEN <<>>
    ELSE <<[timestamp |-> lo, value |-> Lookup(df, lo)]>> \o Reindex(df, lo + 1, hi)

\* Whether validate_data rejects df: fewer than two distinct timestamps.
SchemaError(df) == Cardinality(Timestamps(df)) < 2

validate_data(df, tau) ==
    LET d == Dedup(df, Timestamps(df), tau)
    IN  Reindex(d, d[1].timestamp, d[Len(d)].timestamp)

\* ------------------------------------------------------------ series helpers

\* The present values of a series, as numbers, in index order.
Present(s) ==
    LET rows == SelectSeq(s, LAMBDA r : notna(r.value))
    IN  [i \in DOMAIN rows |-> Num(rows[i].value)]

\* The series s with the rows at which the boolean series cond is true set to
\* other (pandas Series.mask).
mask(s, cond, other) ==
    [i \in DOMAIN s |->
        [timestamp |-> s[i].timestamp,
         value |-> IF cond[i].value THEN other ELSE s[i].value]]

\* Twice the median of a non-empty sequence of numbers: the sum of the two
\* middle elements of the sorted sequence (the same element twice when the
\* length is odd).
Kth(xs, k) ==
    CHOOSE x \in Range(xs) :
        /\ Cardinality({i \in DOMAIN xs : xs[i] < x}) < k
        /\ Cardinality({i \in DOMAIN xs : xs[i] <= x}) >= k

Median2(xs) ==
    LET n == Len(xs)
    IN  IF n % 2 = 1 THEN 2 * Kth(xs, (n + 1) \div 2)
        ELSE Kth(xs, n \div 2) + Kth(xs, n \div 2 + 1)

\* ------------------------------------------------------------ global_filter

\* Rule 1: zero and negative values, where the signal does not allow them.
FilterSign(s, allow_zero, allow_negative) ==
    [i \in DOMAIN s |->
        [timestamp |-> s[i].timestamp,
         value |-> IF /\ notna(s[i].value)
                      /\ \/ (~allow_zero /\ Num(s[i].value) = 0)
                         \/ (~allow_negative /\ Num(s[i].value) < 0)
                   THEN NaN ELSE s[i].value]]

\* Rule 2: values above ten times the median of the non-missing values.
FilterMagnitude(s) ==
    IF Present(s) = <<>> THEN s
    ELSE [i \in DOMAIN s |->
            [timestamp |-> s[i].timestamp,
             value |-> IF /\ notna(s[i].value)
                          /\ 2 * Num(s[i].value) > MedianFactor * Median2(Present(s))
                       THEN NaN ELSE s[i].value]]

\* Row i lies in a run of at least w consecutive identical non-missing values.
InFlatRun(s, i, w) ==
    \E a \in DOMAIN s :
        /\ a <= i
        /\ i <= a + w - 1
        /\ a + w - 1 <= Len(s)
        /\ \A j \in a .. (a + w - 1) : notna(s[j].value) /\ s[j].value = s[i].value

\* Rule 3: streaks of constant values.
FilterFlat(s, w) ==
    [i \in DOMAIN s |->
        [timestamp |-> s[i].timestamp,
         value |-> IF InFlatRun(s, i, w) THEN NaN ELSE s[i].value]]

global_filter(s, w, allow_zero, allow_negative) ==
    FilterFlat(FilterMagnitude(FilterSign(s, allow_zero, allow_negative)), w)

\* ------------------------------------------------------- outlier detection

\* The residuals a seasonal fit may leave at the present values of a series.
Residuals == {0, 240}

\* The scales a Student's t fit may return.
FitScales == {1, 600}

\* The locations a Student's t fit may return for s: between the smallest and
\* the largest value, here one of the values.
FitLocations(s) == IF Present(s) = <<>> THEN {0} ELSE Range(Present(s))

\* global_outlier_detect with the fitted location and scale given.
global_outlier_detect(s, c, loc, scale) ==
    [i \in DOMAIN s |->
        [timestamp |-> s[i].timestamp,
         value |-> /\ notna(s[i].value)
                   /\ Abs(Num(s[i].value) - loc) > c * scale]]

Day(t) == t \div HoursPerDay

\* The rows of s of the calendar day d.
DayRows(s, d) == SelectSeq(s, LAMBDA r : Day(r.timestamp) = d)

\* Whether day d has enough present values for its own statistics:
\* count >= min_samples * HoursPerDay, min_samples given in tenths.
EnoughSamples(s, d, min_samples10) ==
    10 * Len(Present(DayRows(s, d))) >= min_samples10 * HoursPerDay

\* Twice the absolute deviations of the values xs from their median.
Deviations2(xs) == [i \in DOMAIN xs |-> Abs(2 * xs[i] - Median2(xs))]

\* |x - median| > c * MAD, for the values xs of one day, all scaled by four.
LocalOutlier(x, xs, c) ==
    2 * Abs(2 * x - Median2(xs)) > c * Median2(Deviations2(xs))

local_outlier_detect(s, min_samples10, c) ==
    [i \in DOMAIN s |->
        [timestamp |-> s[i].timestamp,
         value |-> /\ notna(s[i].value)
                   /\ EnoughSamples(s, Day(s[i].timestamp), min_samples10)
                   /\ LocalOutlier(Num(s[i].value),
                                   Present(DayRows(s, Day(s[i].timestamp))), c)]]

\* np.logical_or in place of np.logical_and.
logical_or(a, b) ==
    [i \in DOMAIN a |->
        [timestamp |-> a[i].timestamp, value |-> a[i].value \/ b[i].value]]

\* np.logical_and of two boolean series on the same index.
logical_and(a, b) ==
    [i \in DOMAIN a |->
        [timestamp |-> a[i].timestamp, value |-> a[i].value /\ b[i].value]]

\* ------------------------------------------------------------ linear_impute

\* The rows before (after) row i that are present and within w hours of it.
Before(s, i, w) ==
    {j \in DOMAIN s : j < i /\ notna(s[j].value) /\ s[i].timestamp - s[j].timestamp <= w}

After(s, i, w) ==
    {j \in DOMAIN s : j > i /\ notna(s[j].value) /\ s[j].timestamp - s[i].timestamp <= w}

\* The value on the line through rows l and r at the timestamp of row i.
Interpolate(s, l, r, i) ==
    Val(Num(s[l].value)
        + ((Num(s[r].value) - Num(s[l].value)) * (s[i].timestamp - s[l].timestamp))
          \div (s[r].timestamp - s[l].timestamp))

linear_impute(s, w) ==
    [i \in DOMAIN s |->
        [timestamp |-> s[i].timestamp,
         value |-> IF notna(s[i].value) THEN s[i].value
                   ELSE IF Before(s, i, w) # {} /\ After(s, i, w) # {}
                        THEN Interpolate(s, SetMax(Before(s, i, w)),
                                         SetMin(After(s, i, w)), i)
                        ELSE NaN]]

\* --------------------------------------------------------------- merge_asof

\* The row of right nearest to timestamp t and at most tol hours away, an exact
\* match first and the earlier row on a tie; 0 when there is none.
Nearest(right, t, tol) ==
    LET cand == {j \in DOMAIN right : Abs(right[j].timestamp - t) <= tol}
    IN  IF cand = {} THEN 0
        ELSE CHOOSE j \in cand :
                \A k \in cand :
                    \/ Abs(right[j].timestamp - t) < Abs(right[k].timestamp - t)
                    \/ /\ Abs(right[j].timestamp - t) = Abs(right[k].timestamp - t)
                       /\ right[j].timestamp <= right[k].timestamp

\* pd.merge_asof(left, right, left_index, right_index, direction='nearest',
\* tolerance=tol): one row per row of left.
merge_asof(left, right, tol) ==
    [i \in DOMAIN left |->
        [timestamp |-> left[i].timestamp,
         consumption |-> left[i].value,
         temperature |-> IF Nearest(right, left[i].timestamp, tol) = 0 THEN NaN
                         ELSE right[Nearest(right, left[i].timestamp, tol)].value]]

\* ------------------------------------------------------------- sufficiency

\* The frame without the mask: the consumption column alone.
MissingFrameUnmasked(md) ==
    [i \in DOMAIN md |-> [timestamp |-> md[i].timestamp, value |-> md[i].consumption]]

\* The frame with the mask inverted: masked where the temperature is present.
MissingFrameInverted(md) ==
    [i \in DOMAIN md |->
        [timestamp |-> md[i].timestamp,
         value |-> IF notna(md[i].temperature) THEN NaN ELSE md[i].consumption]]

\* merged_data[['consumption']].mask(merged_data['temperature'].isna(), np.nan)
MissingFrame(md) ==
    [i \in DOMAIN md |->
        [timestamp |-> md[i].timestamp,
         value |-> IF isna(md[i].temperature) THEN NaN ELSE md[i].consumption]]

\* The (year, month) of a timestamp in the model's calendar.
MonthYear(t) == <<(t \div HoursPerMonth) \div 12, ((t \div HoursPerMonth) % 12) + 1>>

MonthYears(df) == {MonthYear(df[i].timestamp) : i \in DOMAIN df}

\* The group of a groupby([year, month]).
Group(df, my) == SelectSeq(df, LAMBDA r : MonthYear(r.timestamp) = my)

\* check_column_values_not_null(data, column, mostly): the share of missing
\* values as the fraction <<unexpected_count, element_count>>, and success
\* when the share of present values is at least mostly (in tenths).
check_column_values_not_null(data, mostly10) ==
    LET n == Len(data)
        u == Cardinality({i \in DOMAIN data : isna(data[i].value)})
    IN  [success |-> 10 * (n - u) >= mostly10 * n,
         result |-> [element_count |-> n,
                     unexpected_count |-> u,
                     unexpected_percent |-> <<u, n>>]]

\* The loop over the groups: unexpected_percent per (year, month).
AvailData(miss, mostly10) ==
    [my \in MonthYears(miss) |->
        check_column_values_not_null(Group(miss, my), mostly10).result.unexpected_percent]

\* --------------------------------------------------------- iterative_impute

\* The values the regression imputer may predict.
ImputedValues == {1200, 1500}

\* The fully filled consumption series: the present values kept, each missing
\* one replaced by the prediction fill gives for its row.
iterative_impute(md, fill) ==
    [i \in DOMAIN md |->
        [timestamp |-> md[i].timestamp,
         value |-> IF isna(md[i].consumption) THEN Val(fill[i]) ELSE md[i].consumption]]

\* The flag column masked where the temperature, not the consumption, is
\* missing.
FlagImputedTemperature(md) ==
    [i \in DOMAIN md |->
        [timestamp |-> md[i].timestamp,
         consumption |-> md[i].consumption,
         temperature |-> md[i].temperature,
         consumption_imputed |-> isna(md[i].temperature)]]

\* The flag column left at its initial False.
FlagImputedNever(md) ==
    [i \in DOMAIN md |->
        [timestamp |-> md[i].timestamp,
         consumption |-> md[i].consumption,
         temperature |-> md[i].temperature,
         consumption_imputed |-> FALSE]]

\* merged_data['consumption_imputed'] = False, then masked to True where the
\* consumption is missing.
FlagImputed(md) ==
    [i \in DOMAIN md |->
        [timestamp |-> md[i].timestamp,
         consumption |-> md[i].consumption,
         temperature |-> md[i].temperature,
         consumption_imputed |-> isna(md[i].consumption)]]

\* The consumption column left as it was, the imputed series kept apart.
FillImputedApart(md, imp) == md

\* merged_data['consumption'].mask(merged_data['consumption_imputed'], other=imputed)
FillImputed(md, imp) ==
    [i \in DOMAIN md |->
        [timestamp |-> md[i].timestamp,
         consumption |-> IF md[i].consumption_imputed THEN imp[i].value
                         ELSE md[i].consumption,
         temperature |-> md[i].temperature,
         consumption_imputed |-> md[i].consumption_imputed]]

\* ------------------------------------------------------------------ inputs

\* The raw rows of a dataset with at most one row per hour of lo..hi, by
\* increasing timestamp: f gives the value of each hour, NaN where the dataset
\* has no row for it.
RECURSIVE RowsOf(_, _, _)
RowsOf(f, lo, hi) ==
    IF lo > hi THEN <<>>
    ELSE (IF isna(f[lo]) THEN <<>> ELSE <<[timestamp |-> lo, value |-> f[lo]]>>)
         \o RowsOf(f, lo + 1, hi)

\* The raw consumption datasets of a pipeline run: hour t, when present, reads
\* ConsumptionAt(t).
ConsumptionAt(t) == 1200 + 60 * (t % 2)

RawConsumption ==
    {RowsOf([t \in 0 .. (PipelineHours - 1) |->
                IF t \in S THEN Val(ConsumptionAt(t)) ELSE NaN],
            0, PipelineHours - 1) :
        S \in SUBSET (0 .. (PipelineHours - 1))}

\* The raw temperature datasets of a pipeline run: hour t, when present, reads
\* TemperatureAt(t), a multiple of 27720 so that every interpolated value is a
\* whole number.
TemperatureAt(t) == 27720 * (((t * t) % 7) + 1)

RawTemperature ==
    {RowsOf([t \in 0 .. (PipelineHours - 1) |->
                IF t \in S THEN Val(TemperatureAt(t)) ELSE NaN],
            0, PipelineHours - 1) :
        S \in SUBSET (0 .. (PipelineHours - 1))}

\* Every raw dataset of at most MaxRaw rows on the timestamps 0..MaxTs, in any
\* row order and with any number of rows per timestamp.
RawRows == [timestamp : 0 .. MaxTs, value : {Val(x) : x \in RawValues}]

RawDatasets == UNION {[1 .. n -> RawRows] : n \in 1 .. MaxRaw}

\* ----------------------------------------------------------------- actions

Empty == <<>>

Init ==
    /\ pc = "load_consumption"
    /\ threshold \in Thresholds
    /\ consumption = Empty
    /\ temperature = Empty
    /\ result = Empty
    /\ outliers_global = Empty
    /\ outliers_local = Empty
    /\ outliers = Empty
    /\ merged_data = Empty
    /\ missing = Empty
    /\ avail_data = Empty
    /\ imputed = Empty
    /\ catalog = Empty

\* consumption = catalog.load('consumption_train')
LoadConsumption ==
    /\ pc = "load_consumption"
    /\ consumption' \in RawConsumption
    /\ pc' = "validate_consumption"
    /\ UNCHANGED <<threshold, temperature, result, outliers_global, outliers_local,
                   outliers, merged_data, missing, avail_data, imputed, catalog>>

\* The cell with the result of validate_data dropped instead of assigned.
ValidateConsumptionDropped ==
    /\ pc = "validate_consumption"
    /\ IF SchemaError(consumption)
       THEN pc' = "SchemaError"
       ELSE pc' = "filter_consumption"
    /\ UNCHANGED <<threshold, consumption, temperature, result, outliers_global,
                   outliers_local, outliers, merged_data, missing, avail_data,
                   imputed, catalog>>

\* The cell with every range taken as short, whatever the threshold.
ValidateConsumptionAnyRange ==
    /\ pc = "validate_consumption"
    /\ IF SchemaError(consumption)
       THEN pc' = "SchemaError" /\ UNCHANGED consumption
       ELSE /\ consumption' = validate_data(consumption, 1000000)
            /\ pc' = "filter_consumption"
    /\ UNCHANGED <<threshold, temperature, result, outliers_global, outliers_local,
                   outliers, merged_data, missing, avail_data, imputed, catalog>>

\* consumption = validate_data(consumption, col_name='consumption', ...)
ValidateConsumption ==
    /\ pc = "validate_consumption"
    /\ IF SchemaError(consumption)
       THEN pc' = "SchemaError" /\ UNCHANGED consumption
       ELSE /\ consumption' = validate_data(consumption, threshold)
            /\ pc' = "filter_consumption"
    /\ UNCHANGED <<threshold, temperature, result, outliers_global, outliers_local,
                   outliers, merged_data, missing, avail_data, imputed, catalog>>

\* The cell with allow_zero=True passed.
FilterConsumptionAllowZero ==
    /\ pc = "filter_consumption"
    /\ consumption' = global_filter(consumption, no_change_window, TRUE, FALSE)
    /\ pc' = "seasonal_predict"
    /\ UNCHANGED <<threshold, temperature, result, outliers_global, outliers_local,
                   outliers, merged_data, missing, avail_data, imputed, catalog>>

\* consumption['consumption'] = global_filter(consumption['consumption'],
\*     no_change_window=3, allow_zero=False, allow_negative=False)
FilterConsumption ==
    /\ pc = "filter_consumption"
    /\ consumption' = global_filter(consumption, no_change_window, FALSE, FALSE)
    /\ pc' = "seasonal_predict"
    /\ UNCHANGED <<threshold, temperature, result, outliers_global, outliers_local,
                   outliers, merged_data, missing, avail_data, imputed, catalog>>

\* result = seasonal_predict(consumption, target_name='consumption'): a residual
\* at every row with a present value; the fit fails on a series with none.
SeasonalPredict ==
    /\ pc = "seasonal_predict"
    /\ IF Present(consumption) = <<>>
       THEN pc' = "FitError" /\ UNCHANGED result
       ELSE /\ \E r \in [DOMAIN consumption -> Residuals] :
                  result' = [resid |->
                      [i \in DOMAIN consumption |->
                          [timestamp |-> consumption[i].timestamp,
                           value |-> IF isna(consumption[i].value) THEN NaN
                                     ELSE Val(r[i])]]]
            /\ pc' = "global_detect"
    /\ UNCHANGED <<threshold, consumption, temperature, outliers_global, outliers_local,
                   outliers, merged_data, missing, avail_data, imputed, catalog>>

\* outliers_global = global_outlier_detect(result.resid, c=4)
GlobalDetect ==
    /\ pc = "global_detect"
    /\ \E loc \in FitLocations(result.resid), scale \in FitScales :
           outliers_global' = global_outlier_detect(result.resid, OutlierC, loc, scale)
    /\ pc' = "local_detect"
    /\ UNCHANGED <<threshold, consumption, temperature, result, outliers_local,
                   outliers, merged_data, missing, avail_data, imputed, catalog>>

\* The cell with the days below min_samples flagged instead of left alone, so
\* that the conjunction falls back on the global detector there.
LocalDetectFallback ==
    /\ pc = "local_detect"
    /\ outliers_local' =
           [i \in DOMAIN result.resid |->
               [timestamp |-> result.resid[i].timestamp,
                value |-> IF EnoughSamples(result.resid, Day(result.resid[i].timestamp),
                                           MinSamples10)
                          THEN local_outlier_detect(result.resid, MinSamples10,
                                                    OutlierC)[i].value
                          ELSE notna(result.resid[i].value)]]
    /\ pc' = "combine"
    /\ UNCHANGED <<threshold, consumption, temperature, result, outliers_global,
                   outliers, merged_data, missing, avail_data, imputed, catalog>>

\* outliers_local = local_outlier_detect(result.resid, min_samples=0.6, c=4)
LocalDetect ==
    /\ pc = "local_detect"
    /\ outliers_local' = local_outlier_detect(result.resid, MinSamples10, OutlierC)
    /\ pc' = "combine"
    /\ UNCHANGED <<threshold, consumption, temperature, result, outliers_global,
                   outliers, merged_data, missing, avail_data, imputed, catalog>>

\* outliers = np.logical_and(outliers_global, outliers_local)
Combine ==
    /\ pc = "combine"
    /\ outliers' = logical_and(outliers_global, outliers_local)
    /\ pc' = "mask_outliers"
    /\ UNCHANGED <<threshold, consumption, temperature, result, outliers_global,
                   outliers_local, merged_data, missing, avail_data, imputed, catalog>>

\* The cell with the masked series dropped instead of assigned.
MaskOutliersDropped ==
    /\ pc = "mask_outliers"
    /\ pc' = "load_temperature"
    /\ UNCHANGED <<threshold, consumption, temperature, result, outliers_global,
                   outliers_local, outliers, merged_data, missing, avail_data,
                   imputed, catalog>>

\* consumption['consumption'] = consumption['consumption'].mask(outliers, other=np.nan)
MaskOutliers ==
    /\ pc = "mask_outliers"
    /\ consumption' = mask(consumption, outliers, NaN)
    /\ pc' = "load_temperature"
    /\ UNCHANGED <<threshold, temperature, result, outliers_global, outliers_local,
                   outliers, merged_data, missing, avail_data, imputed, catalog>>

\* temperature = catalog.load('temperature_train')
\* temperature = validate_data(temperature, col_name='temperature', ...)
LoadTemperature ==
    /\ pc = "load_temperature"
    /\ \E raw \in RawTemperature :
           IF SchemaError(raw)
           THEN pc' = "SchemaError" /\ temperature' = raw
           ELSE /\ temperature' = validate_data(raw, threshold)
                /\ pc' = "filter_temperature"
    /\ UNCHANGED <<threshold, consumption, result, outliers_global, outliers_local,
                   outliers, merged_data, missing, avail_data, imputed, catalog>>

\* temperature['temperature'] = global_filter(temperature['temperature'],
\*     no_change_window=3, allow_zero=True, allow_negative=True)
FilterTemperature ==
    /\ pc = "filter_temperature"
    /\ temperature' = global_filter(temperature, no_change_window, TRUE, TRUE)
    /\ pc' = "global_detect_temperature"
    /\ UNCHANGED <<threshold, consumption, result, outliers_global, outliers_local,
                   outliers, merged_data, missing, avail_data, imputed, catalog>>

\* outliers_global = global_outlier_detect(temperature['temperature'], c=4)
GlobalDetectTemperature ==
    /\ pc = "global_detect_temperature"
    /\ \E loc \in FitLocations(temperature), scale \in FitScales :
           outliers_global' = global_outlier_detect(temperature, OutlierC, loc, scale)
    /\ pc' = "local_detect_temperature"
    /\ UNCHANGED <<threshold, consumption, temperature, result, outliers_local,
                   outliers, merged_data, missing, avail_data, imputed, catalog>>

\* The cell followed by the np.logical_and of the consumption, written to the
\* same variable outliers.
LocalDetectTemperatureCombined ==
    /\ pc = "local_detect_temperature"
    /\ outliers_local' = local_outlier_detect(temperature, MinSamples10, OutlierC)
    /\ outliers' = logical_and(outliers_global, outliers_local')
    /\ pc' = "impute_temperature"
    /\ UNCHANGED <<threshold, consumption, temperature, result, outliers_global,
                   merged_data, missing, avail_data, imputed, catalog>>

\* outliers_local = local_outlier_detect(temperature['temperature'], c=4)
LocalDetectTemperature ==
    /\ pc = "local_detect_temperature"
    /\ outliers_local' = local_outlier_detect(temperature, MinSamples10, OutlierC)
    /\ pc' = "impute_temperature"
    /\ UNCHANGED <<threshold, consumption, temperature, result, outliers_global,
                   outliers, merged_data, missing, avail_data, imputed, catalog>>

\* The cell with twice the window passed.
ImputeTemperatureWide ==
    /\ pc = "impute_temperature"
    /\ temperature' = linear_impute(temperature, 2 * window)
    /\ pc' = "merge"
    /\ UNCHANGED <<threshold, consumption, result, outliers_global, outliers_local,
                   outliers, merged_data, missing, avail_data, imputed, catalog>>

\* temperature['temperature'] = linear_impute(temperature['temperature'], window=6)
ImputeTemperature ==
    /\ pc = "impute_temperature"
    /\ temperature' = linear_impute(temperature, window)
    /\ pc' = "merge"
    /\ UNCHANGED <<threshold, consumption, result, outliers_global, outliers_local,
                   outliers, merged_data, missing, avail_data, imputed, catalog>>

\* The merge cell with no tolerance: a temperature from the same hour only.
MergeExact ==
    /\ pc = "merge"
    /\ merged_data' = merge_asof(consumption, temperature, 0)
    /\ pc' = "missing"
    /\ UNCHANGED <<threshold, consumption, temperature, result, outliers_global,
                   outliers_local, outliers, missing, avail_data, imputed, catalog>>

\* The merge cell followed at once by the imputation of the consumption, the
\* cells of the report left for later.
MergeSkipsReport ==
    /\ pc = "merge"
    /\ merged_data' = merge_asof(consumption, temperature, 1)
    /\ pc' = "iterative_impute"
    /\ UNCHANGED <<threshold, consumption, temperature, result, outliers_global,
                   outliers_local, outliers, missing, avail_data, imputed, catalog>>

\* merged_data = pd.merge_asof(consumption, temperature, left_index=True,
\*     right_index=True, direction='nearest', tolerance=pd.Timedelta('1H'))
\* (the catalog has no holidays dataset)
Merge ==
    /\ pc = "merge"
    /\ merged_data' = merge_asof(consumption, temperature, 1)
    /\ pc' = "missing"
    /\ UNCHANGED <<threshold, consumption, temperature, result, outliers_global,
                   outliers_local, outliers, missing, avail_data, imputed, catalog>>

\* missing = merged_data[['consumption']].mask(merged_data['temperature'].isna(), np.nan)
ComputeMissing ==
    /\ pc = "missing"
    /\ missing' = MissingFrame(merged_data)
    /\ pc' = "sufficiency"
    /\ UNCHANGED <<threshold, consumption, temperature, result, outliers_global,
                   outliers_local, outliers, merged_data, avail_data, imputed, catalog>>

\* The loop run on the consumption column of merged_data instead of missing.
CheckSufficiencyMerged ==
    /\ pc = "sufficiency"
    /\ avail_data' = AvailData(MissingFrameUnmasked(merged_data), Mostly10)
    /\ pc' = "iterative_impute"
    /\ UNCHANGED <<threshold, consumption, temperature, result, outliers_global,
                   outliers_local, outliers, merged_data, missing, imputed, catalog>>

\* for month_year, group in missing.groupby([year, month]):
\*     check = check_column_values_not_null(data=group, column='consumption', mostly=0.9)
\*     avail_data[month_year] = check.result['unexpected_percent']
CheckSufficiency ==
    /\ pc = "sufficiency"
    /\ avail_data' = AvailData(missing, Mostly10)
    /\ pc' = "iterative_impute"
    /\ UNCHANGED <<threshold, consumption, temperature, result, outliers_global,
                   outliers_local, outliers, merged_data, missing, imputed, catalog>>

\* imputed = iterative_impute(merged_data, target_name='consumption',
\*                            other_features='temperature')
IterativeImpute ==
    /\ pc = "iterative_impute"
    /\ \E fill \in [DOMAIN merged_data -> ImputedValues] :
           imputed' = iterative_impute(merged_data, fill)
    /\ pc' = "flag_imputed"
    /\ UNCHANGED <<threshold, consumption, temperature, result, outliers_global,
                   outliers_local, outliers, merged_data, missing, avail_data, catalog>>

\* merged_data['consumption_imputed'] = False, masked to True where consumption
\* is missing; then merged_data['consumption'] takes imputed at those rows.
MarkImputed ==
    /\ pc = "flag_imputed"
    /\ merged_data' = FillImputed(FlagImputed(merged_data), imputed)
    /\ pc' = "save"
    /\ UNCHANGED <<threshold, consumption, temperature, result, outliers_global,
                   outliers_local, outliers, missing, avail_data, imputed, catalog>>

\* _ = catalog.save('merged_data_train', merged_data)
Save ==
    /\ pc = "save"
    /\ catalog' = Append(catalog, [name |-> "merged_data_train", data |-> merged_data])
    /\ pc' = "done"
    /\ UNCHANGED <<threshold, consumption, temperature, result, outliers_global,
                   outliers_local, outliers, merged_data, missing, avail_data, imputed>>

Next ==
    \/ LoadConsumption
    \/ ValidateConsumption
    \/ FilterConsumption
    \/ SeasonalPredict
    \/ GlobalDetect
    \/ LocalDetect
    \/ Combine
    \/ MaskOutliers
    \/ LoadTemperature
    \/ FilterTemperature
    \/ GlobalDetectTemperature
    \/ LocalDetectTemperature
    \/ ImputeTemperature
    \/ Merge
    \/ ComputeMissing
    \/ CheckSufficiency
    \/ IterativeImpute
    \/ MarkImputed
    \/ Save

Spec == Init /\ [][Next]_vars

\* ------------------------------------------- the timestamp validator alone

\* validate_data about to be applied to any raw dataset.
InitValidate ==
    /\ pc = "validate_consumption"
    /\ threshold \in Thresholds
    /\ consumption \in RawDatasets
    /\ temperature = Empty
    /\ result = Empty
    /\ outliers_global = Empty
    /\ outliers_local = Empty
    /\ outliers = Empty
    /\ merged_data = Empty
    /\ missing = Empty
    /\ avail_data = Empty
    /\ imputed = Empty
    /\ catalog = Empty

NextValidate == ValidateConsumption

SpecValidate == InitValidate /\ [][NextValidate]_vars

\* ------------------------------------------------ the sufficiency check alone

\* The hours of the data drawn for the sufficiency check: one whole month and
\* the start of the next.
SufficiencyHours == HoursPerMonth + 2

\* A series on the hours 0..n-1 whose value at hour t is Val(at[t]), missing at
\* the hours of S.
SeriesWithout(at, n, S) ==
    [i \in 1 .. n |->
        [timestamp |-> i - 1,
         value |-> IF (i - 1) \in S THEN NaN ELSE Val(at[i - 1])]]

\* The sets of at most MaxMissing hours.
MissingHours ==
    {S \in SUBSET (0 .. (SufficiencyHours - 1)) : Cardinality(S) <= MaxMissing}

\* A series of the same index as s, with x at every row.
Const(s, x) == [i \in DOMAIN s |-> [timestamp |-> s[i].timestamp, value |-> x]]

\* The temperature series on the hours of the sufficiency data as
\* linear_impute can leave them: nothing left to fill.
ImputedTemperatures ==
    {s \in {SeriesWithout([t \in 0 .. (SufficiencyHours - 1) |-> TemperatureAt(t)],
                          SufficiencyHours, S) : S \in MissingHours} :
        linear_impute(s, window) = s}

\* The cells up to the imputation of the temperature have run and found no
\* outlier; consumption and temperature are missing at a few hours each.
\* Nothing from here on reads the threshold.
InitSufficiency ==
    /\ pc = "merge"
    /\ threshold = 120
    /\ \E S \in MissingHours :
           consumption = SeriesWithout([t \in 0 .. (SufficiencyHours - 1) |-> ConsumptionAt(t)],
                                       SufficiencyHours, S)
    /\ temperature \in ImputedTemperatures
    /\ result = [resid |-> [i \in DOMAIN consumption |->
                    [timestamp |-> consumption[i].timestamp,
                     value |-> IF isna(consumption[i].value) THEN NaN ELSE Val(0)]]]
    /\ outliers = Const(consumption, FALSE)
    /\ outliers_global = Const(temperature, FALSE)
    /\ outliers_local = Const(temperature, FALSE)
    /\ merged_data = Empty
    /\ missing = Empty
    /\ avail_data = Empty
    /\ imputed = Empty
    /\ catalog = Empty

NextSufficiency ==
    \/ Merge
    \/ ComputeMissing
    \/ CheckSufficiency

SpecSufficiency == InitSufficiency /\ [][NextSufficiency]_vars

\* ------------------------------------------------- the interpolation alone

\* The cells up to the outlier detection on the temperature have run and found
\* no outlier; the temperature is missing at any set of hours.
InitImpute ==
    /\ pc = "impute_temperature"
    /\ threshold = 120
    /\ consumption = SeriesWithout([t \in 0 .. (PipelineHours - 1) |-> ConsumptionAt(t)],
                                   PipelineHours, {})
    /\ \E S \in SUBSET (0 .. (ImputeHours - 1)) :
           temperature = SeriesWithout([t \in 0 .. (ImputeHours - 1) |-> TemperatureAt(t)],
                                       ImputeHours, S)
    /\ result = [resid |-> Const(consumption, Val(0))]
    /\ outliers = Const(consumption, FALSE)
    /\ outliers_global = Const(temperature, FALSE)
    /\ outliers_local = Const(temperature, FALSE)
    /\ merged_data = Empty
    /\ missing = Empty
    /\ avail_data = Empty
    /\ imputed = Empty
    /\ catalog = Empty

NextImpute == ImputeTemperature

SpecImpute == InitImpute /\ [][NextImpute]_vars

\* ------------------------------------------------------ the global filter alone

\* The hours of the series drawn for the global filter.
FilterHours == 5

\* The readings of those series: a negative one, zero, an ordinary one and one
\* above ten times the ordinary one.
FilterReadings == {-120, 0, 120, 1440}

\* The validated series on the hours 0..FilterHours-1 with any readings, missing
\* at no more than MaxMissing hours.
FilterInputs ==
    {[i \in 1 .. FilterHours |-> [timestamp |-> i - 1, value |-> f[i]]] :
        f \in {g \in [1 .. FilterHours -> {Val(x) : x \in FilterReadings} \cup {NaN}] :
                  Cardinality({i \in 1 .. FilterHours : isna(g[i])}) <= MaxMissing}}

\* global_filter about to be applied to a validated consumption, or, the cells
\* of the consumption having run and found no outlier, to a validated
\* temperature.
InitFilter ==
    /\ threshold = 120
    /\ merged_data = Empty
    /\ missing = Empty
    /\ avail_data = Empty
    /\ imputed = Empty
    /\ catalog = Empty
    /\ \/ /\ pc = "filter_consumption"
          /\ consumption \in FilterInputs
          /\ temperature = Empty
          /\ result = Empty
          /\ outliers_global = Empty
          /\ outliers_local = Empty
          /\ outliers = Empty
       \/ /\ pc = "filter_temperature"
          /\ consumption = SeriesWithout([t \in 0 .. (PipelineHours - 1) |-> ConsumptionAt(t)],
                                         PipelineHours, {})
          /\ temperature \in FilterInputs
          /\ result = [resid |-> Const(consumption, Val(0))]
          /\ outliers_global = Const(consumption, FALSE)
          /\ outliers_local = Const(consumption, FALSE)
          /\ outliers = Const(consumption, FALSE)

NextFilter ==
    \/ FilterConsumption
    \/ FilterTemperature

SpecFilter == InitFilter /\ [][NextFilter]_vars

\* ------------------------------------------------------------------ claims

\* The raw dataset in consumption has at least two distinct timestamps and the
\* validator is about to run on it.
ValidatorRuns ==
    /\ pc = "validate_consumption"
    /\ \E i, j \in DOMAIN consumption : consumption[i].timestamp # consumption[j].timestamp

\* C1: on an input with at least two distinct timestamps the validator's
\* output has exactly one row per hour from the earliest to the latest input
\* timestamp: it starts at the earliest, ends at the latest, every row is one
\* hour after the one before it (so no duplicate and no gap), and every hour
\* without a row in the input carries a missing value.
GridCompleteness ==
    [][ValidatorRuns =>
        /\ pc' = "filter_consumption"
        /\ consumption' # <<>>
        /\ \A t \in Timestamps(consumption) : consumption'[1].timestamp <= t
        /\ consumption'[1].timestamp \in Timestamps(consumption)
        /\ \A t \in Timestamps(consumption) : consumption'[Len(consumption')].timestamp >= t
        /\ consumption'[Len(consumption')].timestamp \in Timestamps(consumption)
        /\ \A i \in 1 .. (Len(consumption') - 1) :
               consumption'[i + 1].timestamp = consumption'[i].timestamp + 1
        /\ \A i \in DOMAIN consumption' :
               consumption'[i].timestamp \notin Timestamps(consumption)
                   => isna(consumption'[i].value)]_vars

\* The validator has run on a dataset with a gap: three hourly rows, the
\* middle one missing.
GridCompletenessWitness ==
    /\ pc = "filter_consumption"
    /\ Len(consumption) = 3
    /\ isna(consumption[2].value)
    /\ notna(consumption[1].value)
    /\ notna(consumption[3].value)

\* C2: for every group of input rows sharing a timestamp, the output row of
\* that timestamp is the mean of the group when max - min of the group is at
\* most the threshold, and missing when it is larger.
DedupByRange ==
    [][ValidatorRuns =>
        \A t \in Timestamps(consumption) :
            LET g == {i \in DOMAIN consumption : consumption[i].timestamp = t}
                short == \A a, b \in g :
                             Num(consumption[a].value) - Num(consumption[b].value)
                                 <= threshold
                out == {consumption'[i].value :
                           i \in {k \in DOMAIN consumption' : consumption'[k].timestamp = t}}
            IN  /\ Cardinality(out) = 1
                /\ short => \A v \in out :
                                /\ notna(v)
                                /\ Num(v) * Cardinality(g)
                                     = SeqSum([i \in DOMAIN consumption |->
                                                 IF i \in g THEN Num(consumption[i].value)
                                                 ELSE 0])
                /\ ~short => out = {NaN}]_vars

\* The validator has run with threshold 1.0 on 10 and 10.5 at one hour (mean
\* 10.25) and a wider pair at the next hour (missing).
DedupByRangeWitness ==
    /\ pc = "filter_consumption"
    /\ threshold = 120
    /\ Len(consumption) = 2
    /\ consumption[1].value = Val(1230)
    /\ isna(consumption[2].value)

\* C3: the combined mask holds a row exactly when the global and the local
\* mask both hold it, and outlier masking sets exactly the rows held by both
\* to missing: a row held by one mask alone, or by none, keeps its value.
ConjunctiveMasking ==
    [][/\ pc = "combine" =>
            \A i \in DOMAIN consumption :
                outliers'[i].value
                    <=> (outliers_global[i].value /\ outliers_local[i].value)
       /\ pc = "mask_outliers" =>
            /\ DOMAIN consumption' = DOMAIN consumption
            /\ \A i \in DOMAIN consumption :
                   /\ consumption'[i].timestamp = consumption[i].timestamp
                   /\ (outliers_global[i].value /\ outliers_local[i].value)
                          => isna(consumption'[i].value)
                   /\ ~(outliers_global[i].value /\ outliers_local[i].value)
                          => consumption'[i].value = consumption[i].value]_vars

\* Outlier masking has run on a series with a row flagged by the global
\* detector alone and a row flagged by the local detector alone; both kept
\* their values.
ConjunctiveMaskingWitness ==
    /\ pc = "load_temperature"
    /\ \E i \in DOMAIN consumption :
           /\ outliers_global[i].value
           /\ ~outliers_local[i].value
           /\ notna(consumption[i].value)
    /\ \E i \in DOMAIN consumption :
           /\ ~outliers_global[i].value
           /\ outliers_local[i].value
           /\ notna(consumption[i].value)

\* The rows a baseline model is trained on: the rows of the saved dataset that
\* are not flagged as imputed.
TrainingRows(data) == SelectSeq(data, LAMBDA r : ~r.consumption_imputed)

\* The dataset saved as merged_data_train.
SavedData == catalog[1].data

\* The consumption the row of timestamp t had before the merge and the
\* imputation.
ConsumptionBefore(t) == Lookup(consumption, t)

\* C4: once the pipeline has run, no row used for training is flagged as
\* imputed and none carries a value of the imputer: every training row's
\* consumption is the value the series had at that hour before imputation, and
\* that value was not missing.
ImputationNonLeakage ==
    pc = "done" =>
        /\ Cardinality({i \in DOMAIN TrainingRows(SavedData) :
                           TrainingRows(SavedData)[i].consumption_imputed}) = 0
        /\ \A i \in DOMAIN TrainingRows(SavedData) :
               /\ notna(ConsumptionBefore(TrainingRows(SavedData)[i].timestamp))
               /\ TrainingRows(SavedData)[i].consumption
                      = ConsumptionBefore(TrainingRows(SavedData)[i].timestamp)

\* The pipeline has run on data with a missing consumption value: the saved
\* dataset has a row that is flagged and filled and a row that is not flagged.
ImputationNonLeakageWitness ==
    /\ pc = "done"
    /\ \E i \in DOMAIN SavedData :
           SavedData[i].consumption_imputed /\ notna(SavedData[i].consumption)
    /\ \E i \in DOMAIN SavedData : ~SavedData[i].consumption_imputed

\* C5 as stated: the imputation step leaves the consumption column of the
\* merged data unchanged, so a value missing before it is missing after it.
ImputerLeavesConsumption ==
    [][pc = "flag_imputed" =>
        \A i \in DOMAIN merged_data :
            merged_data'[i].consumption = merged_data[i].consumption]_vars

\* C5 as amended: the imputation step fills the consumption column in place:
\* a row whose consumption was missing takes the imputer's value for that row
\* and is tagged consumption_imputed, a row whose consumption was present
\* keeps it and is not tagged; no row is left missing.
ImputerFillsInPlace ==
    [][pc = "flag_imputed" =>
        /\ DOMAIN merged_data' = DOMAIN merged_data
        /\ \A i \in DOMAIN merged_data :
               /\ merged_data'[i].timestamp = merged_data[i].timestamp
               /\ merged_data'[i].consumption_imputed = isna(merged_data[i].consumption)
               /\ notna(merged_data'[i].consumption)
               /\ isna(merged_data[i].consumption)
                      => merged_data'[i].consumption = imputed[i].value
               /\ notna(merged_data[i].consumption)
                      => merged_data'[i].consumption = merged_data[i].consumption]_vars

\* The imputation step has run on merged data with a missing consumption: the
\* hour, missing in the series before the merge, now carries a value.
ImputerFillsInPlaceWitness ==
    /\ pc = "save"
    /\ \E i \in DOMAIN merged_data :
           /\ isna(ConsumptionBefore(merged_data[i].timestamp))
           /\ notna(merged_data[i].consumption)
           /\ merged_data[i].consumption_imputed

\* A month of the report passes: at most 1 - mostly of its hours are missing.
MonthPasses(my) ==
    /\ my \in DOMAIN avail_data
    /\ 10 * avail_data[my][1] <= (10 - Mostly10) * avail_data[my][2]

\* The sufficiency gate: some calendar year has all twelve months passing.
SufficiencyGate ==
    \E my \in DOMAIN avail_data :
        \A m \in 1 .. 12 : MonthPasses(<<my[1], m>>)

\* C6: the merged dataset is handed to the storage collaborator only in runs
\* in which the sufficiency gate has passed; a run on data without a full
\* year of passing months saves nothing and does not complete.
GateBeforeSave ==
    /\ Len(catalog) > 0 => SufficiencyGate
    /\ pc = "done" => SufficiencyGate

\* The rows of the merged data of month my, and those of them at which both
\* consumption and temperature are present.
RowsOfMonth(my) ==
    {i \in DOMAIN merged_data : MonthYear(merged_data[i].timestamp) = my}

BothPresent(my) ==
    {i \in RowsOfMonth(my) :
        notna(merged_data[i].consumption) /\ notna(merged_data[i].temperature)}

SufficiencyMonotone ==
    pc = "iterative_impute" =>
        \A i, j \in DOMAIN merged_data :
            LET md == [merged_data EXCEPT ![i].consumption = NaN,
                                          ![j].temperature = NaN]
                less == MissingFrame(md)
                report == AvailData(less, Mostly10)
            IN  \A my \in DOMAIN avail_data :
                    /\ report[my][2] = avail_data[my][2]
                    /\ report[my][1] >= avail_data[my][1]
                    /\ check_column_values_not_null(Group(less, my), Mostly10).success
                           => check_column_values_not_null(Group(missing, my),
                                                           Mostly10).success

\* The sufficiency check has run on a month that fails with two hours missing while the
\* others still have both values, so that more can be turned missing.
SufficiencyMonotoneWitness ==
    /\ pc = "iterative_impute"
    /\ avail_data[<<0, 1>>] = <<2, 10>>
    /\ \E i \in RowsOfMonth(<<0, 1>>) : isna(merged_data[i].temperature)
    /\ \E i \in RowsOfMonth(<<0, 1>>) : isna(merged_data[i].consumption)

\* The present rows at most six hours before (after) row i of the temperature.
NeighboursBefore(i) ==
    {l \in DOMAIN temperature :
        /\ l < i
        /\ notna(temperature[l].value)
        /\ temperature[i].timestamp - temperature[l].timestamp <= 6}

NeighboursAfter(i) ==
    {r \in DOMAIN temperature :
        /\ r > i
        /\ notna(temperature[r].value)
        /\ temperature[r].timestamp - temperature[i].timestamp <= 6}

\* C9: interpolation with window 6 keeps every present value; it fills a
\* missing value exactly when a present value lies within six hours before it
\* and another within six hours after it, and the filled value lies on the
\* line through the nearest such value on each side; any other missing value
\* stays missing.
InterpolationWithinWindow ==
    [][pc = "impute_temperature" =>
        /\ DOMAIN temperature' = DOMAIN temperature
        /\ \A i \in DOMAIN temperature :
               /\ temperature'[i].timestamp = temperature[i].timestamp
               /\ notna(temperature[i].value)
                      => temperature'[i].value = temperature[i].value
               /\ isna(temperature[i].value)
                      => /\ notna(temperature'[i].value)
                             <=> (NeighboursBefore(i) # {} /\ NeighboursAfter(i) # {})
                         /\ \A l \in NeighboursBefore(i), r \in NeighboursAfter(i) :
                                (/\ \A k \in NeighboursBefore(i) : k <= l
                                 /\ \A k \in NeighboursAfter(i) : r <= k)
                                => (Num(temperature'[i].value) - Num(temperature[l].value))
                                       * (temperature[r].timestamp - temperature[l].timestamp)
                                   = (Num(temperature[r].value) - Num(temperature[l].value))
                                       * (temperature[i].timestamp - temperature[l].timestamp)
       ]_vars

\* The interpolation has run on a series with a gap of five hours between the
\* measured values of hours 0 and 6 (hour 3 is filled from its neighbours three
\* hours away) and nothing measured after hour 6 (hours 7 on stay missing).
InterpolationWithinWindowWitness ==
    /\ pc = "merge"
    /\ Len(temperature) = ImputeHours
    /\ temperature[1].value = Val(TemperatureAt(0))
    /\ temperature[7].value = Val(TemperatureAt(6))
    /\ 2 * Num(temperature[4].value) = TemperatureAt(0) + TemperatureAt(6)
    /\ temperature[4].value # Val(TemperatureAt(3))
    /\ \A i \in 8 .. ImputeHours : isna(temperature[i].value)

\* What a row of the saved dataset carries besides its timestamp and its two
\* values.
Marks(row) ==
    [f \in DOMAIN row \ {"timestamp", "consumption", "temperature"} |-> row[f]]

\* Row i was missing before any outlier was masked: it has no residual.
MissingInInput(i) == isna(result.resid[i].value)

AfterCombine ==
    {"mask_outliers", "load_temperature", "filter_temperature",
     "global_detect_temperature", "local_detect_temperature", "impute_temperature",
     "merge", "missing", "sufficiency", "iterative_impute", "flag_imputed", "save"}

ResidualsOfDay(i) ==
    Cardinality({j \in DOMAIN result.resid :
                    /\ Day(result.resid[j].timestamp) = Day(result.resid[i].timestamp)
                    /\ notna(result.resid[j].value)})

\* The day of row i has fewer present residuals than min_samples (0.6) of the
\* hours of a day.
SparseDay(i) == 10 * ResidualsOfDay(i) < MinSamples10 * HoursPerDay

GlobalOnlyOnSparseDay ==
    [][pc = "combine" =>
        \A i \in DOMAIN result.resid :
            SparseDay(i) => (outliers'[i].value <=> outliers_global[i].value)]_vars

\* The number of rows of the merged data md in month my with both a
\* consumption and a temperature.
BothPresentIn(md, my) ==
    Cardinality({i \in DOMAIN md :
                    /\ MonthYear(md[i].timestamp) = my
                    /\ notna(md[i].consumption)
                    /\ notna(md[i].temperature)})

\* The number of present hours a report entry <<missing, hours>> stands for.
PresentCount(entry) == entry[2] - entry[1]

\* The temperature series that interpolation turns into t: t with some of its
\* values taken out again.
Unfilled(t) ==
    {u \in {[i \in DOMAIN t |->
                [timestamp |-> t[i].timestamp,
                 value |-> IF i \in S THEN NaN ELSE t[i].value]] :
            S \in SUBSET DOMAIN t} :
        linear_impute(u, window) = t}

\* C13 as stated: the report does not depend on imputation: whatever the
\* temperature was before interpolation, each month's reported count of
\* present hours is the count on the data merged from the consumption and that
\* unfilled temperature.
SufficiencyIgnoresImputation ==
    pc = "iterative_impute" =>
        \A u \in Unfilled(temperature) :
            \A my \in DOMAIN avail_data :
                PresentCount(avail_data[my])
                    = BothPresentIn(merge_asof(consumption, u, 1), my)

\* C13 as amended: the report is computed after outlier masking and after the
\* interpolation of the temperature, before the imputation of the consumption:
\* when the temperature is interpolated no report exists yet; the report
\* counts, per month, the hours whose consumption is present after masking and
\* whose temperature is present after interpolation; the imputation of the
\* consumption comes later and leaves the report as it is.
SufficiencyAfterInterpolation ==
    [][/\ pc = "impute_temperature" => (avail_data = Empty /\ merged_data = Empty)
       /\ pc = "sufficiency" =>
            /\ imputed = Empty
            /\ \A i \in DOMAIN consumption :
                   outliers[i].value => isna(consumption[i].value)
            /\ \A my \in DOMAIN avail_data' :
                   PresentCount(avail_data'[my])
                       = BothPresentIn(merge_asof(consumption, temperature, 1), my)
       /\ pc \in {"iterative_impute", "flag_imputed", "save"} =>
            avail_data' = avail_data]_vars

\* The report has been computed on data with a temperature that interpolation
\* filled and a consumption that is missing at another hour: the report
\* counts the hour of the filled temperature as present and the other as
\* missing.
SufficiencyAfterInterpolationWitness ==
    /\ pc = "iterative_impute"
    /\ \E u \in Unfilled(temperature) :
           \E i \in DOMAIN merged_data, j \in DOMAIN u :
               /\ u[j].timestamp = merged_data[i].timestamp
               /\ isna(u[j].value)
               /\ notna(merged_data[i].temperature)
               /\ notna(merged_data[i].consumption)
    /\ \E i \in DOMAIN merged_data : isna(merged_data[i].consumption)
    /\ \E my \in DOMAIN avail_data :
           /\ avail_data[my][1] > 0
           /\ PresentCount(avail_data[my]) > 0

\* C14 as stated: both imputations act on merged data only, and the report is
\* the last stage: the temperature is interpolated, and the consumption
\* imputed, only once merged_data exists, and the report is computed only once
\* the consumption has been imputed.
ImputationAfterMerge ==
    [][/\ pc = "impute_temperature" => merged_data # Empty
       /\ pc = "iterative_impute" => merged_data # Empty
       /\ pc = "sufficiency" => imputed # Empty]_vars

\* C14 as amended: the temperature is interpolated on its own series before
\* anything is merged; the merge, the sufficiency frame and the report follow
\* in that order, the report on data in which no consumption has been imputed;
\* the imputation of the consumption acts on the merged data after the report
\* and is the last change to the data, which is saved as it leaves it.
InterpolateMergeReportImpute ==
    [][/\ pc = "impute_temperature" =>
            /\ merged_data = Empty
            /\ merged_data' = Empty
            /\ consumption' = consumption
            /\ pc' = "merge"
       /\ pc = "merge" =>
            /\ temperature' = temperature
            /\ avail_data = Empty
            /\ pc' = "missing"
       /\ pc = "sufficiency" =>
            /\ merged_data # Empty
            /\ imputed = Empty
            /\ avail_data' # Empty
       /\ pc = "iterative_impute" =>
            /\ avail_data # Empty
            /\ DOMAIN imputed' = DOMAIN merged_data
            /\ merged_data' = merged_data
       /\ pc = "flag_imputed" =>
            /\ avail_data' = avail_data
            /\ pc' = "save"
       /\ pc = "save" => catalog' = <<[name |-> "merged_data_train", data |-> merged_data]>>]_vars

\* A run has ended on data of which interpolation filled a temperature and
\* imputation a consumption.
InterpolateMergeReportImputeWitness ==
    /\ pc = "done"
    /\ \E u \in Unfilled(temperature) : u # temperature
    /\ \E i \in DOMAIN SavedData : SavedData[i].consumption_imputed
    /\ avail_data # Empty

\* result holds a seasonal fit of the series s: a residual at every row of s
\* with a present value and at no other.
SeasonalFitOf(s) ==
    /\ result # Empty
    /\ DOMAIN result.resid = DOMAIN s
    /\ \A i \in DOMAIN s :
           /\ result.resid[i].timestamp = s[i].timestamp
           /\ isna(result.resid[i].value) <=> isna(s[i].value)

\* C15: both signals take the same stages: the detectors of each signal read
\* the residuals of a seasonal fit of that signal, never its raw values, and
\* the rows held by both masks of a signal are set to missing in that signal.
DetectorsReadOwnResiduals ==
    [][/\ pc \in {"global_detect", "local_detect"} => SeasonalFitOf(consumption)
       /\ pc = "local_detect" =>
            outliers_local' = local_outlier_detect(result.resid, MinSamples10, OutlierC)
       /\ pc \in {"global_detect_temperature", "local_detect_temperature"} =>
            SeasonalFitOf(temperature)
       /\ pc = "local_detect_temperature" =>
            outliers_local' = local_outlier_detect(result.resid, MinSamples10, OutlierC)
       /\ pc = "impute_temperature" =>
            \A i \in DOMAIN temperature :
                (outliers_global[i].value /\ outliers_local[i].value)
                    => isna(temperature[i].value)]_vars

\* The cells of stages 2 to 6 of the temperature.
TemperatureStages ==
    {"filter_temperature", "global_detect_temperature", "local_detect_temperature"}

\* The boolean series m is on the index of the series s.
OnIndexOf(m, s) ==
    /\ DOMAIN m = DOMAIN s
    /\ \A i \in DOMAIN s : m[i].timestamp = s[i].timestamp

SelectedBySign(s, i, allow_zero, allow_negative) ==
    /\ notna(s[i].value)
    /\ \/ (Num(s[i].value) = 0 /\ ~allow_zero)
       \/ (Num(s[i].value) < 0 /\ ~allow_negative)

\* The values of s that are present and not selected by rule one.
LeftBySign(s, allow_zero, allow_negative) ==
    LET rows == SelectSeq(s, LAMBDA r :
                    /\ notna(r.value)
                    /\ (Num(r.value) = 0 => allow_zero)
                    /\ (Num(r.value) < 0 => allow_negative))
    IN  [k \in DOMAIN rows |-> Num(rows[k].value)]

\* Rule two selects row i of s: its value is above ten times the median of the
\* non-missing values, those that rule one leaves.
SelectedByMagnitude(s, i, allow_zero, allow_negative) ==
    /\ notna(s[i].value)
    /\ LeftBySign(s, allow_zero, allow_negative) # <<>>
    /\ 2 * Num(s[i].value) > 10 * Median2(LeftBySign(s, allow_zero, allow_negative))

\* Rule three selects row i of s: it is one of no_change_window consecutive
\* rows with the same non-missing value.
SelectedByFlatRun(s, i) ==
    /\ notna(s[i].value)
    /\ \E a \in (i - no_change_window + 1) .. i :
           /\ a >= 1
           /\ a + no_change_window - 1 <= Len(s)
           /\ \A j \in a .. (a + no_change_window - 1) : s[j].value = s[i].value

\* The filter turned the series s into out under the three rules: a present
\* value is missing in out when at least one rule selects it and unchanged
\* when none does; a missing value stays missing.
FilteredByRules(s, out, allow_zero, allow_negative) ==
    /\ DOMAIN out = DOMAIN s
    /\ \A i \in DOMAIN s :
           /\ out[i].timestamp = s[i].timestamp
           /\ IF \/ SelectedBySign(s, i, allow_zero, allow_negative)
                 \/ SelectedByMagnitude(s, i, allow_zero, allow_negative)
                 \/ SelectedByFlatRun(s, i)
              THEN isna(out[i].value)
              ELSE out[i].value = s[i].value

Flagged(md, i) ==
    /\ i \in DOMAIN md
    /\ "consumption_imputed" \in DOMAIN md[i]
    /\ md[i].consumption_imputed

\* The cells before the one that flags and fills.
BeforeFlag ==
    {"load_consumption", "validate_consumption", "filter_consumption",
     "seasonal_predict", "global_detect", "local_detect", "combine", "mask_outliers",
     "load_temperature", "filter_temperature", "global_detect_temperature",
     "local_detect_temperature", "impute_temperature", "merge", "missing",
     "sufficiency", "iterative_impute"}

\* C18: a row of the output is flagged consumption_imputed exactly when its
\* consumption was missing in the merged data right before iterative
\* imputation (which is the consumption series as merged); no row is flagged
\* before the imputation step, that step alone sets the flag, and no step sets
\* a flag back once it is set.
FlagOnlyByImputation ==
    [][/\ (pc \in BeforeFlag) =>
            \A i \in DOMAIN merged_data' : ~Flagged(merged_data', i)
       /\ pc = "iterative_impute" => merged_data' = merged_data
       /\ pc = "flag_imputed" =>
            \A i \in DOMAIN merged_data :
                Flagged(merged_data', i) <=> isna(merged_data[i].consumption)
       /\ pc = "save" =>
            /\ DOMAIN catalog'[1].data = DOMAIN consumption
            /\ \A i \in DOMAIN consumption :
                   /\ catalog'[1].data[i].timestamp = consumption[i].timestamp
                   /\ catalog'[1].data[i].consumption_imputed
                          <=> isna(consumption[i].value)
       /\ \A i \in DOMAIN merged_data :
              Flagged(merged_data, i) => Flagged(merged_data', i)]_vars

\* The pipeline has run on data with a consumption missing in the input and,
\* at another hour, a consumption without any temperature: the first row is
\* saved flagged, the second is not.
FlagOnlyByImputationWitness ==
    /\ pc = "done"
    /\ \E i \in DOMAIN SavedData :
           /\ SavedData[i].consumption_imputed
           /\ MissingInInput(i)
           /\ ~outliers[i].value
    /\ \E j \in DOMAIN SavedData :
           /\ ~SavedData[j].consumption_imputed
           /\ isna(SavedData[j].temperature)

\* The rows of the temperature at the hour t, and at one hour from it.
RowsAtHour(t) == {j \in DOMAIN temperature : temperature[j].timestamp = t}

RowsNextToHour(t) ==
    {j \in DOMAIN temperature :
        temperature[j].timestamp = t - 1 \/ temperature[j].timestamp = t + 1}

\* The merged data has one row per row of the consumption, with its timestamp
\* and its consumption.
OnConsumptionGrid(md) ==
    /\ DOMAIN md = DOMAIN consumption
    /\ \A i \in DOMAIN consumption :
           /\ md[i].timestamp = consumption[i].timestamp
           /\ md[i].consumption = consumption[i].value

\* C19 as stated: the merged data is on the hourly grid of the consumption,
\* one row per timestamp, and each row's temperature is the temperature of the
\* same timestamp: missing when the temperature has no row at that hour.
MergedOnSameHour ==
    [][pc = "merge" =>
        /\ OnConsumptionGrid(merged_data')
        /\ \A i \in DOMAIN consumption :
               IF RowsAtHour(consumption[i].timestamp) = {}
               THEN isna(merged_data'[i].temperature)
               ELSE \A j \in RowsAtHour(consumption[i].timestamp) :
                        merged_data'[i].temperature = temperature[j].value]_vars

\* C19 as amended: the merged data is on the hourly grid of the consumption,
\* one row per timestamp, and each row's temperature is that of the
\* temperature row nearest to the timestamp and at most one hour from it: the
\* row of the same hour when there is one, whatever its value, else the row of
\* the hour before or after, and missing only when the temperature has no row
\* within one hour.
MergedOnNearestHour ==
    [][pc = "merge" =>
        /\ OnConsumptionGrid(merged_data')
        /\ \A i \in DOMAIN consumption :
               IF RowsAtHour(consumption[i].timestamp) # {}
               THEN \A j \in RowsAtHour(consumption[i].timestamp) :
                        merged_data'[i].temperature = temperature[j].value
               ELSE IF RowsNextToHour(consumption[i].timestamp) # {}
                    THEN merged_data'[i].temperature
                             = temperature[SetMin(RowsNextToHour(consumption[i].timestamp))].value
                    ELSE isna(merged_data'[i].temperature)]_vars

\* The merge has run on a temperature that starts two hours after the
\* consumption: the first row has no temperature, the second has that of the
\* hour after it, the third that of its own hour.
MergedOnNearestHourWitness ==
    /\ pc = "missing"
    /\ Len(merged_data) >= 3
    /\ temperature[1].timestamp = merged_data[3].timestamp
    /\ isna(merged_data[1].temperature)
    /\ notna(merged_data[2].temperature)
    /\ merged_data[2].temperature = temperature[1].value
    /\ merged_data[3].temperature = temperature[1].value

====
